---- MODULE Spec2Model ----
(***************************************************************************)
(* Model of polars-mongo's MongoScan (src/src/lib.rs): the partitioned     *)
(* scan of a MongoDB collection into a DataFrame, and schema inference.    *)
(*                                                                         *)
(* A behaviour is one call on a constructed MongoScan: either scan(), its  *)
(* partitions running as independent rayon tasks that interleave batch by  *)
(* batch of their cursors, or schema().  The collection, the driver's failures and    *)
(* the caller's options are the environment, drawn from small sets.        *)
(***************************************************************************)
EXTENDS Integers, Sequences, FiniteSets, TLC

\* ------------------------------------------------------------------ bounds
MaxThreads == 2
BatchDocs == 40
MaxErrPoll == 2
SmallColl == 3

\* ------------------------------------------------------- program constants
Threshold == 128
DefaultInferLength == 100

\* ------------------------------------------------------------ small helpers
Min(a, b) == IF a < b THEN a ELSE b

Max(a, b) == IF a > b THEN a ELSE b

Some(n) == [some |-> TRUE, val |-> n]

NoneOpt == [some |-> FALSE, val |-> 0]

UnwrapOr(o, d) == IF o.some THEN o.val ELSE d

\* ------------------------------------------------------------ Bson values
IntV(n) == [tag |-> "Int", val |-> n]

StrV(n) == [tag |-> "Str", val |-> n]

FloatV(n) == [tag |-> "Float", val |-> n]

NullCell == [tag |-> "Null", val |-> 0]

\* ------------------------------------------------ the collection (environment)
\* Documents carry _id = 1..size.  The natural (unsorted) order of the
\* collection is not the _id order: size-1, size, 1, 2, ..., size-2.
CollSizes == {0, SmallColl, Threshold + 1, Threshold + 2}

CollKinds == {"clean", "bad"}

NaturalId(size, i) == ((i + size - 3) % size) + 1

\* The document with identity id.  Field a is an integer, absent from every
\* third document; in a "bad" collection the document with the largest _id
\* holds a string in a.  Field z exists on even documents only.
IsBadDoc(size, kind, id) == kind = "bad" /\ id = size

DocFields(size, kind, id) ==
    {"_id"} \cup (IF id % 3 # 2 \/ IsBadDoc(size, kind, id) THEN {"a"} ELSE {})
            \cup (IF id % 2 = 0 THEN {"z"} ELSE {})

Doc(size, kind, id) ==
    [f \in DocFields(size, kind, id) |->
        CASE f = "_id" -> IntV(id)
          [] f = "a" -> IF IsBadDoc(size, kind, id) THEN StrV(id) ELSE IntV(id)
          [] OTHER -> FloatV(id)]

FieldOrder == <<"_id", "a", "z">>

\* ------------------------------------------------------ the driver's find
\* A query is {skip, limit, sort, projection}.  limit = 0 means "no limit"
\* to the server.  A projection always keeps _id.
NoQuery == [skip |-> 0, limit |-> 0, sort_desc |-> FALSE, batch_size |-> NoneOpt, projection |-> NoneOpt]

OrderedId(size, q, i) == IF q.sort_desc THEN size + 1 - i ELSE NaturalId(size, i)

ResultLen(size, q) ==
    LET rem == Max(size - q.skip, 0)
    IN  IF q.limit = 0 THEN rem ELSE Min(rem, q.limit)

Project(doc, projection) ==
    IF projection.some
    THEN [f \in (DOMAIN doc) \cap ({"_id"} \cup projection.val) |-> doc[f]]
    ELSE doc

\* The cursor receives the result in batches of batch_size documents (all of
\* it when batch_size is unset): the end of the batch that starts after pos.
BatchEnd(size, q, pos) ==
    IF q.batch_size.some THEN Min(pos + q.batch_size.val, ResultLen(size, q))
    ELSE ResultLen(size, q)

ResultDoc(size, kind, q, k) ==
    Project(Doc(size, kind, OrderedId(size, q, q.skip + k)), q.projection)

\* ------------------------------------------------------------------ schemas
Field(n, t) == [name |-> n, dtype |-> t]

FullSchema == <<Field("_id", "Int"), Field("a", "Int")>>

OutputSchemas == {NoneOpt, Some(<<Field("a", "Int")>>), Some(<<Field("a", "Int"), Field("_id", "Int")>>)}

SchemaNames(s) == [i \in DOMAIN s |-> s[i].name]

\* Wrap::<DataType>::from(&value): the column type that fits one value.
DataTypeOf(v) == v.tag

\* The type two observed types generalise to.
Widen(types) ==
    IF Cardinality(types \ {"Null"}) = 1 THEN CHOOSE t \in types \ {"Null"} : TRUE
    ELSE IF types \ {"Null"} = {} THEN "Null"
    ELSE IF types \ {"Null"} \subseteq {"Int", "Float"} THEN "Float"
    ELSE "Str"

FieldIndex(f) == CHOOSE i \in DOMAIN FieldOrder : FieldOrder[i] = f

\* infer_schema over the sampled documents: one column per field seen, in
\* the order of first appearance, its type widened over the values seen.
infer_schema(docs) ==
    LET n == Len(docs)
        seen == UNION {DOMAIN docs[k] : k \in 1..n}
        first(f) == CHOOSE k \in 1..n : f \in DOMAIN docs[k] /\ \A j \in 1..(k - 1) : f \notin DOMAIN docs[j]
        before(f, g) == first(f) < first(g) \/ (first(f) = first(g) /\ FieldIndex(f) < FieldIndex(g))
        place(f) == Cardinality({g \in seen : before(g, f)}) + 1
    IN  [i \in 1..Cardinality(seen) |->
            LET f == CHOOSE g \in seen : place(g) = i
            IN  Field(f, Widen({DataTypeOf(docs[k][f]) : k \in {j \in 1..n : f \in DOMAIN docs[j]}}))]

\* ------------------------------------------------------------------ buffers
\* Buffer::add - a value goes into a buffer of its own type only.
Compatible(v, dtype) == v.tag = dtype \/ (dtype = "Float" /\ v.tag = "Int")

init_buffers(s, capacity) ==
    [i \in DOMAIN s |-> [name |-> s[i].name, dtype |-> s[i].dtype, cells |-> <<>>]]

\* ParseField with the None arm of the match doing nothing.
ParseField_SkipMissing(buf, doc) ==
    IF buf.name \in DOMAIN doc
    THEN IF Compatible(doc[buf.name], buf.dtype)
         THEN [panic |-> FALSE, buf |-> [buf EXCEPT !.cells = Append(@, doc[buf.name])]]
         ELSE [panic |-> TRUE, buf |-> buf]
    ELSE [panic |-> FALSE, buf |-> buf]

\* One column of the for_each closure of parse_lines: the outcome for one
\* buffer and one document.
ParseField(buf, doc) ==
    IF buf.name \in DOMAIN doc
    THEN IF Compatible(doc[buf.name], buf.dtype)
         THEN [panic |-> FALSE, buf |-> [buf EXCEPT !.cells = Append(@, doc[buf.name])]]
         ELSE [panic |-> TRUE, buf |-> buf]
    ELSE [panic |-> FALSE, buf |-> [buf EXCEPT !.cells = Append(@, NullCell)]]

\* The body of the while loop of parse_lines for one document: for_each
\* visits the buffers in order, and a panic leaves the later ones untouched.
ParseDoc(buffers, doc) ==
    LET r == [i \in DOMAIN buffers |-> ParseField(buffers[i], doc)]
        failed == {i \in DOMAIN buffers : r[i].panic}
    IN  [panic |-> failed # {},
         buffers |-> [i \in DOMAIN buffers |->
                        IF \E j \in failed : j <= i THEN buffers[i] ELSE r[i].buf]]

\* The while loop of parse_lines over the documents lo..hi of a query's
\* result, in order; it stops at the first document that panics.  pos is the
\* number of documents taken from the cursor.
RECURSIVE ParseRange(_, _, _, _, _, _)
ParseRange(buffers, size, kind, q, lo, hi) ==
    IF lo > hi THEN [panic |-> FALSE, buffers |-> buffers, pos |-> hi]
    ELSE IF lo = hi
         THEN LET r == ParseDoc(buffers, ResultDoc(size, kind, q, lo))
              IN  [panic |-> r.panic, buffers |-> r.buffers, pos |-> lo]
    ELSE LET mid == (lo + hi) \div 2
             left == ParseRange(buffers, size, kind, q, lo, mid)
         IN  IF left.panic THEN left
             ELSE ParseRange(left.buffers, size, kind, q, mid + 1, hi)

\* ---------------------------------------------------------------- dataframes
SameLengths(buffers) ==
    \A i, j \in DOMAIN buffers : Len(buffers[i].cells) = Len(buffers[j].cells)

Height(buffers) == IF buffers = <<>> THEN 0 ELSE Len(buffers[1].cells)

\* DataFrame::new over the finished buffers.
DataFrameNew(buffers) ==
    [columns |-> [i \in DOMAIN buffers |-> buffers[i].name],
     dtypes |-> [i \in DOMAIN buffers |-> buffers[i].dtype],
     rows |-> [r \in 1..Height(buffers) |-> [i \in DOMAIN buffers |-> buffers[i].cells[r]]]]

\* accumulate_dataframes_vertical: the frames stacked in the order given.
accumulate_dataframes_vertical(dfs, n) ==
    LET F[k \in 0..n] == IF k = 0 THEN <<>> ELSE F[k - 1] \o dfs[k - 1].rows
    IN  [columns |-> dfs[0].columns, dtypes |-> dfs[0].dtypes, rows |-> F[n]]

ColumnIndex(columns, name) ==
    IF \E i \in DOMAIN columns : columns[i] = name
    THEN CHOOSE i \in DOMAIN columns : columns[i] = name
    ELSE 0

\* df.sort([name], false): rows in ascending order of the column, stable.
\* placed holds <<place in the sorted frame, row>> for every row.
SortAsc(rows, c) ==
    LET n == Len(rows)
        placed == {<<Cardinality({k \in 1..n : rows[k][c].val < rows[j][c].val})
                     + Cardinality({k \in 1..(j - 1) : rows[k][c].val = rows[j][c].val}) + 1,
                     j>> : j \in 1..n}
    IN  [i \in 1..n |-> rows[(CHOOSE p \in placed : p[1] = i)[2]]]

\* ------------------------------------------------------------------- state
VARIABLES
    collSize, collKind,   \* the collection behind get_collection()
    pc,                   \* "idle", "scanning", "scan_done", "schema_done"
    n_rows_opt,           \* scan_opts.n_rows
    n_rows,               \* effective row count
    n_rows_num,           \* scan_opts.n_rows.unwrap_or(0)
    req_threads,          \* self.n_threads.unwrap_or(pool size), before the clamp
    n_threads,            \* number of partitions
    rows_per_thread,
    schema,               \* the schema the buffers are built from
    batch_size,           \* self.batch_size
    projection,           \* find_options.projection
    task,                 \* one record per partition idx
    sample,               \* what schema() met: find failure, stream error, sample size
    outcome               \* what the call gave its caller

opt_vars == <<n_rows_opt, n_rows, n_rows_num, req_threads, n_threads, rows_per_thread, schema,
              batch_size, projection>>

env_vars == <<collSize, collKind>>

vars == <<collSize, collKind, pc, n_rows_opt, n_rows, n_rows_num, req_threads, n_threads,
          rows_per_thread, schema, batch_size, projection, task, sample, outcome>>

NoOutcome == [tag |-> "None", columns |-> <<>>, dtypes |-> <<>>, rows |-> <<>>, err |-> ""]

Ok(columns, dtypes, rows) == [tag |-> "Ok", columns |-> columns, dtypes |-> dtypes, rows |-> rows, err |-> ""]

Err(e) == [tag |-> "Err", columns |-> <<>>, dtypes |-> <<>>, rows |-> <<>>, err |-> e]

Panic(e) == [tag |-> "Panic", columns |-> <<>>, dtypes |-> <<>>, rows |-> <<>>, err |-> e]

NoSample == [find_failed |-> FALSE, read_failed |-> FALSE, size |-> 0]

IdleTask == [pc |-> "idle", query |-> NoQuery, pos |-> 0, buffers |-> <<>>,
             find_err |-> FALSE, conv_err |-> FALSE, stream_err |-> FALSE]

Partitions == 0..(n_threads - 1)

\* MongoScan::new leaves n_threads unset; the collection is whatever the
\* server holds.
Init ==
    /\ collSize \in CollSizes
    /\ collKind \in CollKinds
    /\ (collSize = 0 => collKind = "clean")
    /\ pc = "idle"
    /\ n_rows_opt = NoneOpt
    /\ n_rows = 0
    /\ n_rows_num = 0
    /\ req_threads = 0
    /\ n_threads = 0
    /\ rows_per_thread = 0
    /\ schema = <<>>
    /\ batch_size = NoneOpt
    /\ projection = NoneOpt
    /\ task = <<>>
    /\ sample = NoSample
    /\ outcome = NoOutcome

\* -------------------------------------------------------------- scan, start
NRowsChoices == {NoneOpt, Some(0), Some(SmallColl), Some(Threshold - 1), Some(Threshold), Some(Threshold + 1)}

ThreadChoices == {NoneOpt} \cup {Some(t) : t \in 0..MaxThreads}

BatchChoices == {NoneOpt, Some(BatchDocs)}

\* POOL.current_num_threads()
PoolThreads == MaxThreads

\* What estimated_document_count may answer: the real count, or a stale one.
EstimateChoices(size) == {size, SmallColl}

\* ClampThreads without the clamp.
ClampThreads_Never(n, t) == t

\* if n_rows < 128 { n_threads = 1 }
ClampThreads(n, t) == IF n < Threshold THEN 1 ELSE t

\* find_options.sort = Some(doc! {"_id": -1}) is set when n_rows_num > 0.
FindSort(num) == num > 0

\* scan(), up to the fan-out: the projection, the effective row count, the
\* sort, the thread count and rows_per_thread.
ScanStart(opt, out_schema, self_threads, self_batch, est_ok, est) ==
    /\ pc = "idle"
    /\ batch_size' = self_batch
    /\ n_rows_opt' = opt
    /\ projection' = IF out_schema.some
                       THEN Some({out_schema.val[i].name : i \in DOMAIN out_schema.val})
                       ELSE NoneOpt
    /\ schema' = IF out_schema.some THEN out_schema.val ELSE FullSchema
    /\ n_rows_num' = UnwrapOr(opt, 0)
    /\ req_threads' = UnwrapOr(self_threads, PoolThreads)
    /\ sample' = NoSample
    /\ UNCHANGED env_vars
    /\ IF ~opt.some /\ ~est_ok
       THEN \* estimated_document_count(None).unwrap() panics
            /\ pc' = "scan_done"
            /\ outcome' = Panic("estimated_document_count")
            /\ n_rows' = 0 /\ n_threads' = 0 /\ rows_per_thread' = 0 /\ task' = <<>>
       ELSE LET n == UnwrapOr(opt, est)
                t == ClampThreads(n, UnwrapOr(self_threads, PoolThreads))
            IN  /\ n_rows' = n
                /\ IF t = 0
                   THEN \* n_rows / n_threads divides by zero
                        /\ pc' = "scan_done"
                        /\ outcome' = Panic("divide by zero")
                        /\ n_threads' = 0 /\ rows_per_thread' = 0 /\ task' = <<>>
                   ELSE /\ pc' = "scanning"
                        /\ outcome' = NoOutcome
                        /\ n_threads' = t
                        /\ rows_per_thread' = n \div t
                        /\ task' = [p \in 0..(t - 1) |-> IdleTask]

\* ---------------------------------------------------------- scan, partitions
\* The query of partition idx: the shared find_options with its own skip and limit.
PartitionQuery(idx) ==
    [skip |-> idx * rows_per_thread, limit |-> rows_per_thread,
     sort_desc |-> FindSort(n_rows_num), batch_size |-> batch_size, projection |-> projection]

\* Partition idx starts: collection.find, init_buffers, then cursor.unwrap(),
\* which panics when find failed.
PartFind(idx, ok) ==
    /\ pc = "scanning"
    /\ idx \in Partitions
    /\ task[idx].pc = "idle"
    /\ task' = [task EXCEPT ![idx] =
                  IF ok
                  THEN [@ EXCEPT !.pc = "reading", !.query = PartitionQuery(idx),
                                 !.buffers = init_buffers(schema, rows_per_thread)]
                  ELSE [@ EXCEPT !.pc = "panicked", !.query = PartitionQuery(idx),
                                 !.buffers = init_buffers(schema, rows_per_thread),
                                 !.find_err = TRUE]]
    /\ UNCHANGED <<env_vars, pc, opt_vars, sample, outcome>>

\* The cursor holds a batch of documents: the while loop of parse_lines runs
\* over it, cursor.next() being Some(Ok(doc)) for each, until the batch is
\* used up or a value does not fit its buffer and expect() panics.
PartReadBatch(idx) ==
    /\ pc = "scanning"
    /\ idx \in Partitions
    /\ task[idx].pc = "reading"
    /\ task[idx].pos < ResultLen(collSize, task[idx].query)
    /\ LET q == task[idx].query
           hi == BatchEnd(collSize, q, task[idx].pos)
           r == ParseRange(task[idx].buffers, collSize, collKind, q, task[idx].pos + 1, hi)
       IN  task' = [task EXCEPT ![idx] =
                      IF r.panic
                      THEN [@ EXCEPT !.pc = "panicked", !.pos = r.pos, !.buffers = r.buffers,
                                     !.conv_err = TRUE]
                      ELSE [@ EXCEPT !.pos = r.pos, !.buffers = r.buffers]]
    /\ UNCHANGED <<env_vars, pc, opt_vars, sample, outcome>>

\* The end of a partition: parse_lines returns Ok(()) and DataFrame::new
\* builds the partition's frame, or fails on columns of unequal length.
FinishTask(t, stream_err) ==
    [t EXCEPT !.pc = IF SameLengths(t.buffers) THEN "done" ELSE "failed",
              !.stream_err = stream_err]

\* cursor.next() is Some(Err(_)), the next batch could not be read: the
\* while-let pattern does not match, the loop ends and parse_lines returns Ok(()).
PartStreamErr(idx) ==
    /\ pc = "scanning"
    /\ idx \in Partitions
    /\ task[idx].pc = "reading"
    /\ task[idx].pos < ResultLen(collSize, task[idx].query)
    /\ task' = [task EXCEPT ![idx] = FinishTask(@, TRUE)]
    /\ UNCHANGED <<env_vars, pc, opt_vars, sample, outcome>>

\* cursor.next() is None: the stream is exhausted.
PartFinish(idx) ==
    /\ pc = "scanning"
    /\ idx \in Partitions
    /\ task[idx].pc = "reading"
    /\ task[idx].pos = ResultLen(collSize, task[idx].query)
    /\ task' = [task EXCEPT ![idx] = FinishTask(@, FALSE)]
    /\ UNCHANGED <<env_vars, pc, opt_vars, sample, outcome>>

\* ------------------------------------------------------------ scan, the join
\* Accumulate with the frames taken in the reverse of the partition order.
Accumulate_Reversed(tk, n) ==
    accumulate_dataframes_vertical([p \in 0..(n - 1) |-> DataFrameNew(tk[n - 1 - p].buffers)], n)

\* The frames of the partitions, collected in partition order and stacked by
\* accumulate_dataframes_vertical.
Accumulate(tk, n) ==
    accumulate_dataframes_vertical([p \in 0..(n - 1) |-> DataFrameNew(tk[p].buffers)], n)

\* The tail of scan: df.sort(["_id"], false) when n_rows_num > 0.
Resort(df, num) ==
    IF num > 0
    THEN IF ColumnIndex(df.columns, "_id") = 0
         THEN Err("ColumnNotFound: _id")
         ELSE Ok(df.columns, df.dtypes, SortAsc(df.rows, ColumnIndex(df.columns, "_id")))
    ELSE Ok(df.columns, df.dtypes, df.rows)

\* collect() has every partition's frame: concatenate, re-sort, return.
ScanJoin ==
    /\ pc = "scanning"
    /\ \A p \in Partitions : task[p].pc \in {"done", "failed"}
    /\ pc' = "scan_done"
    /\ outcome' = IF \E p \in Partitions : task[p].pc = "failed"
                  THEN Err("ShapeMismatch")
                  ELSE Resort(Accumulate(task, n_threads), n_rows_num)
    /\ UNCHANGED <<env_vars, opt_vars, task, sample>>

\* A partition panicked: once no partition is running the pool resumes the
\* panic in the caller of scan.  Partitions not yet started may be skipped.
ScanUnwind ==
    /\ pc = "scanning"
    /\ \E p \in Partitions : task[p].pc = "panicked"
    /\ \A p \in Partitions : task[p].pc # "reading"
    /\ pc' = "scan_done"
    /\ outcome' = Panic("partition")
    /\ UNCHANGED <<env_vars, opt_vars, task, sample>>

\* ------------------------------------------------------------------ schema
InferChoices == {NoneOpt, Some(0), Some(1), Some(SmallColl)}

\* schema(infer_schema_length): find with the limit, then infer_schema over
\* at most infer_schema_length (default 100) documents of the stream.  The
\* stream's poll number err_poll yields an error (0: none does).
SchemaCall(infer_schema_length, find_ok, err_poll) ==
    /\ pc = "idle"
    /\ pc' = "schema_done"
    /\ LET q == [skip |-> 0, limit |-> UnwrapOr(infer_schema_length, 0), sort_desc |-> FALSE,
                 batch_size |-> NoneOpt, projection |-> NoneOpt]
           take == Min(UnwrapOr(infer_schema_length, DefaultInferLength), ResultLen(collSize, q))
           polls == Min(UnwrapOr(infer_schema_length, DefaultInferLength), ResultLen(collSize, q) + 1)
           docs == [k \in 1..take |-> ResultDoc(collSize, collKind, q, k)]
           inferred == infer_schema(docs)
       IN  IF ~find_ok
           THEN /\ sample' = [find_failed |-> TRUE, read_failed |-> FALSE, size |-> 0]
                /\ outcome' = Err("ComputeError")
           ELSE IF err_poll >= 1 /\ err_poll <= polls
           THEN \* doc.unwrap() panics
                /\ sample' = [find_failed |-> FALSE, read_failed |-> TRUE, size |-> err_poll - 1]
                /\ outcome' = Panic("unwrap")
           ELSE /\ sample' = [find_failed |-> FALSE, read_failed |-> FALSE, size |-> take]
                /\ outcome' = Ok(SchemaNames(inferred), [i \in DOMAIN inferred |-> inferred[i].dtype], <<>>)
    /\ UNCHANGED <<env_vars, opt_vars, task>>

Next ==
    \/ \E len \in InferChoices, ok \in BOOLEAN, ep \in 0..MaxErrPoll : SchemaCall(len, ok, ep)
    \/ \E opt \in NRowsChoices, os \in OutputSchemas, st \in ThreadChoices, sb \in BatchChoices,
          ok \in BOOLEAN, est \in EstimateChoices(collSize) : ScanStart(opt, os, st, sb, ok, est)
    \/ \E idx \in 0..MaxThreads, ok \in BOOLEAN : PartFind(idx, ok)
    \/ \E idx \in 0..MaxThreads : PartReadBatch(idx)
    \/ \E idx \in 0..MaxThreads : PartStreamErr(idx)
    \/ \E idx \in 0..MaxThreads : PartFinish(idx)
    \/ ScanJoin
    \/ ScanUnwind

Spec == Init /\ [][Next]_vars

\* =============================================================== properties
\* What a call observed, in terms of the state.
IdColumn == ColumnIndex(outcome.columns, "_id")

HasIdColumn == \E i \in DOMAIN schema : schema[i].name = "_id"

AscendingById(rows, c) == \A i \in 1..(Len(rows) - 1) : rows[i][c].val < rows[i + 1][c].val

AllDoneClean == \A p \in DOMAIN task : task[p].pc = "done" /\ ~task[p].stream_err

\* The effective row count was resolved (estimated_document_count did not panic).
EffectiveKnown == pc = "scanning" \/ (pc = "scan_done" /\ outcome.err # "estimated_document_count")

Issued == {p \in DOMAIN task : task[p].pc # "idle"}

\* The k-th document partition p took from its cursor, and the cell a
\* document gives to a column.
ReadDoc(p, k) == ResultDoc(collSize, collKind, task[p].query, k)

CellFor(doc, name) == IF name \in DOMAIN doc THEN doc[name] ELSE NullCell

PartRows(p) ==
    [k \in 1..task[p].pos |-> [i \in DOMAIN schema |-> CellFor(ReadDoc(p, k), schema[i].name)]]

ConcatInOrder ==
    LET F[k \in 0..n_threads] == IF k = 0 THEN <<>> ELSE F[k - 1] \o PartRows(k - 1)
    IN  F[n_threads]

SameRows(a, b) == Len(a) = Len(b) /\ {a[i] : i \in DOMAIN a} = {b[i] : i \in DOMAIN b}

\* C1: a scan with an explicit n_rows = N >= 128 and >= 2 threads over a
\* collection of more than N documents, no partition failing, returns exactly
\* N rows, in ascending _id order.
C1_ExactRowsAscending ==
    (/\ pc = "scan_done"
     /\ n_rows_opt.some /\ n_rows_opt.val >= Threshold
     /\ req_threads >= 2
     /\ collSize > n_rows_opt.val
     /\ HasIdColumn
     /\ AllDoneClean)
    => /\ outcome.tag = "Ok"
       /\ Len(outcome.rows) = n_rows_opt.val
       /\ AscendingById(outcome.rows, IdColumn)

\* C2: a full scan (n_rows unset) whose estimated count is the real count
\* returns every document of the collection exactly once, for every thread
\* count >= 1.
C2_FullScanReturnsAll ==
    (/\ pc = "scan_done"
     /\ ~n_rows_opt.some
     /\ n_threads >= 1 /\ req_threads >= 1
     /\ n_rows = collSize
     /\ AllDoneClean)
    => /\ outcome.tag = "Ok"
       /\ Len(outcome.rows) = collSize
       /\ IdColumn # 0 =>
            \A id \in 1..collSize :
                Cardinality({i \in DOMAIN outcome.rows : outcome.rows[i][IdColumn] = IntV(id)}) = 1

\* C3: when a partition's document stream stops on an error, scan returns an
\* error: it never returns a table built from that partition.
C3_StreamErrorFailsScan ==
    (pc = "scan_done" /\ \E p \in DOMAIN task : task[p].stream_err) => outcome.tag = "Err"

\* C4: with an effective row count below 128 scan issues exactly one
\* partition query, skip = 0 and limit = the effective row count, whatever
\* thread count was configured.
C4_SinglePartitionBelowThreshold ==
    (EffectiveKnown /\ n_rows < Threshold)
    => /\ n_threads = 1
       /\ \A p \in Issued : p = 0 /\ task[p].query.skip = 0 /\ task[p].query.limit = n_rows
       /\ pc = "scan_done" => Issued = {0}

C4_Witness ==
    /\ pc = "scan_done" /\ outcome.tag = "Ok"
    /\ n_rows = Threshold - 1 /\ req_threads >= 2
    /\ Issued = {0}
    /\ Len(outcome.rows) = n_rows

\* C5: when a partition reads a document holding an incompatible value for a
\* schema column, scan returns a conversion error to its caller.
C5_ConversionErrorReturned ==
    (pc = "scan_done" /\ \E p \in DOMAIN task : task[p].conv_err) => outcome.tag = "Err"

\* C6: schema() returns an error when the collection yields no document,
\* when find fails and when reading a sampled document fails.
C6_SchemaErrors ==
    (pc = "schema_done" /\ (collSize = 0 \/ sample.find_failed \/ sample.read_failed))
    => outcome.tag = "Err"

\* The buffers of partition p hold, for every schema column in schema order,
\* one cell per document taken from the cursor: the field's value, or a null
\* where the document lacks the field.
Aligned(p) ==
    /\ Len(task[p].buffers) = Len(schema)
    /\ \A i \in DOMAIN schema :
         /\ task[p].buffers[i].name = schema[i].name
         /\ Len(task[p].buffers[i].cells) = task[p].pos
         /\ \A k \in 1..task[p].pos :
              task[p].buffers[i].cells[k] = CellFor(ReadDoc(p, k), schema[i].name)

\* C7 as stated: every document a partition reads appends exactly one cell,
\* its value or a null, to every schema column.
C7_EveryDocAppends == \A p \in DOMAIN task : task[p].pc # "idle" => Aligned(p)

\* C7 as amended: every document read whose values fit the column types
\* appends exactly one cell, its value or a null, to every schema column; in
\* every partition that has not met an unfit value the columns are those of
\* the schema, all as long as the number of documents read.
C7_FitDocsAppend == \A p \in DOMAIN task : task[p].pc \in {"reading", "done"} => Aligned(p)

C7_Witness ==
    \E p \in DOMAIN task :
        /\ task[p].pc = "done" /\ task[p].pos >= SmallColl
        /\ Len(schema) = 2
        /\ \E k \in 1..task[p].pos : task[p].buffers[2].cells[k] = NullCell
        /\ \E k \in 1..task[p].pos : "z" \in DOMAIN ReadDoc(p, k)

\* C8: the partition queries carry a descending _id sort, and the result is
\* re-sorted ascending by _id, exactly when the caller gave n_rows (0 included).
C8_SortIffBounded ==
    /\ \A p \in Issued : task[p].query.sort_desc <=> n_rows_opt.some
    /\ (pc = "scan_done" /\ outcome.tag = "Ok")
       => IF n_rows_opt.some
          THEN AscendingById(outcome.rows, IdColumn)
          ELSE outcome.rows = ConcatInOrder

\* C9: the partition plan is a sequence of pairwise disjoint row ranges whose
\* union is [0, n_rows).
PlanRange(p) ==
    PartitionQuery(p).skip..(PartitionQuery(p).skip + PartitionQuery(p).limit - 1)

C9_PlanCoversAllRows ==
    (pc \in {"scanning", "scan_done"} /\ n_threads >= 1)
    => /\ \A p, q \in Partitions : p # q => PlanRange(p) \cap PlanRange(q) = {}
       /\ UNION {PlanRange(p) : p \in Partitions} = 0..(n_rows - 1)

\* C10 as stated: the final table lists the rows of partition 0, then
\* partition 1, ..., in partition index order.
C10_FinalInPartitionOrder ==
    (pc = "scan_done" /\ outcome.tag = "Ok") => outcome.rows = ConcatInOrder

\* C10 as amended.  A returned table was built after every partition had
\* completed, and it is the rows of partition 0, then partition 1, ..., that
\* concatenation being re-sorted ascending by _id when n_rows > 0 was
\* requested: the same table for every interleaving.
C10_ResultInv ==
    (pc = "scan_done" /\ outcome.tag = "Ok")
    => /\ \A p \in DOMAIN task :
            /\ task[p].pc = "done"
            /\ ~task[p].stream_err => task[p].pos = ResultLen(collSize, task[p].query)
       /\ IF n_rows_num > 0
          THEN SameRows(outcome.rows, ConcatInOrder) /\ AscendingById(outcome.rows, IdColumn)
          ELSE outcome.rows = ConcatInOrder

\* A step of one partition leaves the others, the plan and the options alone;
\* the result appears only once no partition is running.
C10_Step ==
    /\ pc = "scanning" => UNCHANGED opt_vars
    /\ pc = "scanning" =>
         \A p, q \in DOMAIN task : (p # q /\ task'[p] # task[p]) => task'[q] = task[q]
    /\ outcome' # outcome => \A p \in DOMAIN task : task[p].pc # "reading"

\* C10, amended: the returned table is the index-order concatenation of the
\* partitions, re-sorted by _id when n_rows > 0, whatever the interleaving,
\* and no partition step touches another partition or the plan.
C10_DeterministicResult == []C10_ResultInv /\ [][C10_Step]_vars

C10_Witness ==
    /\ pc = "scan_done" /\ outcome.tag = "Ok"
    /\ n_threads >= 2 /\ n_rows_num > 0 /\ batch_size.some
    /\ Len(outcome.rows) >= Threshold
    /\ outcome.rows # ConcatInOrder

====
